---- MODULE Spec2Model ----
(***************************************************************************)
(* A model of mobile-health/filecache (src/filecache.go): a disk-backed    *)
(* key/value cache.  The file system (base directory, staging directory),  *)
(* the clock and the lock factory are the shared state; every exported     *)
(* operation is a sequence of steps, one per system call or lock call, run *)
(* by a thread.                                                            *)
(*                                                                         *)
(* Time is counted in ticks, SubPerSec ticks to the second, so that the    *)
(* whole-second truncation of ModTime().Unix() differs from ModTime().     *)
(***************************************************************************)
EXTENDS Naturals, Integers, Sequences, FiniteSets, TLC

\* ---------------------------------------------------------------- bounds
\* The clock stops advancing at MaxClock.
MaxClock == 3
\* Clock ticks per second.
SubPerSec == 2

\* Config.MaxTTL, in ticks, and Config.MaxSize, in bytes.
MaxTTL == 1
MaxSize == 2

Keys == {"a", "b", "c"}
\* The byte sequences handed to Write.  No payload is a prefix of another,
\* so a partially copied payload is never itself a payload.
Payloads == {<<1>>, <<2, 3>>}
Threads == {"c1", "c2"}

defaultLockKey == "lock_filecache"

\* ----------------------------------------------------------------- state
VARIABLES
    baseDir,    \* BaseDir exists
    tempDir,    \* TempDir exists
    files,      \* the regular files of BaseDir, by name
    tmp,        \* the staging file of each thread's Write
    now,        \* the clock
    useLock,    \* lockFactory != nil
    locks,      \* LockFactory.locks: the lock keys held
    th,         \* each thread's operation, position and locals
    written,    \* history: the payload of the Write that made each entry
    idem,       \* history: "yes" after a sweep that returned nil in no time
                \* and that no Write, Read, touch or tick has followed;
                \* "emptied" when an Empty has
    gc          \* the goroutine of RunGC, its ticker and fc.quit

vars == <<baseDir, tempDir, files, tmp, now, useLock, locks, th, written, idem, gc>>

\* New, line 66: fc.quit is open and RunGC has not been called.  pc is the
\* goroutine's place, tick the value buffered in ticker.C; history: last is
\* the result of the pass that ended last, waited the ticks the goroutine
\* has received since fc.quit was closed and its last pass ended.
NoGC == [pc |-> "none", quit |-> "open", tick |-> 0, panic |-> FALSE,
         last |-> "none", waited |-> 0]

NoFile == [exists |-> FALSE, content |-> <<>>, mtime |-> 0]
File(c, m) == [exists |-> TRUE, content |-> c, mtime |-> m]

Idle == [pc |-> "idle", op |-> "none", key |-> "", payload |-> <<>>,
         ret |-> "none", out |-> <<>>, list |-> <<>>, cleanedSize |-> 0,
         resize |-> 0, caller |-> "none", second |-> "no"]

\* time.Time.Unix(): whole seconds.
Unix(t) == t \div SubPerSec

\* keylock: the lock key of a cache key.
keylock(k) == defaultLockKey \o "_" \o k

\* checkFileExist / hasFile: nil when the key names a regular file.
hasFile(k) == baseDir /\ files[k].exists

Has(k) == hasFile(k)

\* fs.FileInfo of an entry, as os.Stat and Readdir give it.
FileInfo(k) == [name |-> k, size |-> Len(files[k].content), mtime |-> files[k].mtime]

\* Mutant of CanLock: the factory grants a key that is held.
CanLockAlways(l) == TRUE

\* LockFactory.Lock (the test's factory): fails when the key is held.
CanLock(l) == l \notin locks

Init ==
    /\ baseDir = TRUE
    /\ tempDir = TRUE
    /\ files = [k \in Keys |-> NoFile]
    /\ tmp = [t \in Threads |-> NoFile]
    /\ now = 0
    /\ useLock \in BOOLEAN
    /\ locks = {}
    /\ th = [t \in Threads |-> Idle]
    /\ written = [k \in Keys |-> <<>>]
    /\ idem = "no"
    /\ gc = NoGC

\* The clock advances.
Tick ==
    /\ now < MaxClock
    /\ now' = now + 1
    /\ idem' = "no"
    /\ UNCHANGED <<gc, baseDir, tempDir, files, tmp, useLock, locks, th, written>>

\* A finished call hands its result to the caller.
Return(t) ==
    /\ th[t].pc = "done"
    /\ th' = [th EXCEPT ![t] = Idle]
    /\ UNCHANGED <<gc, baseDir, tempDir, files, tmp, now, useLock, locks, written, idem>>

\* ----------------------------------------------------------------- Write
\* Mutant of WriteLock: Write takes no lock.
WriteLockNone(t, k, s) ==
    /\ th[t].pc = "idle"
    /\ th' = [th EXCEPT ![t] = [Idle EXCEPT !.pc = "w_has", !.op = "Write",
                                 !.key = k, !.payload = s]]
    /\ idem' = "no"
    /\ UNCHANGED <<gc, baseDir, tempDir, files, tmp, now, useLock, locks, written>>

\* Write, lines 156-162: the per-key lock.
WriteLock(t, k, s) ==
    /\ th[t].pc = "idle"
    /\ IF useLock /\ ~CanLock(keylock(k))
       THEN /\ th' = [th EXCEPT ![t] = [Idle EXCEPT !.pc = "done", !.op = "Write",
                                        !.key = k, !.payload = s, !.ret = "errLock"]]
            /\ locks' = locks
       ELSE /\ th' = [th EXCEPT ![t] = [Idle EXCEPT !.pc = "w_has", !.op = "Write",
                                        !.key = k, !.payload = s]]
            /\ locks' = IF useLock THEN locks \cup {keylock(k)} ELSE locks
    /\ idem' = "no"
    /\ UNCHANGED <<gc, baseDir, tempDir, files, tmp, now, useLock, written>>

\* Mutant of Unlock: the key stays in the factory's map.
UnlockNone(l) == locks

\* The deferred lock.Unlock() of Write and Delete.
Unlock(l) == IF useLock THEN locks \ {l} ELSE locks

\* Mutant of WriteHas: the existence check is dropped.
WriteHasOverwrite(t) ==
    /\ th[t].pc = "w_has"
    /\ th' = [th EXCEPT ![t].pc = "w_create"]
    /\ UNCHANGED <<gc, baseDir, tempDir, files, tmp, now, useLock, locks, written, idem>>

\* Write, lines 164-167: create-only.
WriteHas(t) ==
    /\ th[t].pc = "w_has"
    /\ IF hasFile(th[t].key)
       THEN /\ th' = [th EXCEPT ![t].pc = "done", ![t].ret = "errKeyExisted"]
            /\ locks' = Unlock(keylock(th[t].key))
       ELSE /\ th' = [th EXCEPT ![t].pc = "w_create"]
            /\ locks' = locks
    /\ UNCHANGED <<gc, baseDir, tempDir, files, tmp, now, useLock, written, idem>>

\* Write, lines 169-174: os.CreateTemp in the staging directory.
WriteCreateTemp(t) ==
    /\ th[t].pc = "w_create"
    /\ IF tempDir
       THEN /\ tmp' = [tmp EXCEPT ![t] = File(<<>>, now)]
            /\ th' = [th EXCEPT ![t].pc = "w_copy"]
            /\ locks' = locks
       ELSE /\ tmp' = tmp
            /\ th' = [th EXCEPT ![t].pc = "done", ![t].ret = "errIO"]
            /\ locks' = Unlock(keylock(th[t].key))
    /\ UNCHANGED <<gc, baseDir, tempDir, files, now, useLock, written, idem>>

\* Mutant of CopyChunk: the copy does not advance in the payload.
CopyFirst(s, done) == <<s[1]>>

\* What one write of io.Copy appends to the staging file: the next byte of
\* the payload.
CopyChunk(s, done) == <<s[Len(done) + 1]>>

\* Write, lines 176-181: io.Copy, one chunk a step, then tmp.Sync when the
\* reader is exhausted.  The staging file's inode outlives its name.
WriteCopy(t) ==
    /\ th[t].pc = "w_copy"
    /\ LET s == th[t].payload
           c == tmp[t].content
       IN IF Len(c) < Len(s)
          THEN /\ tmp' = [tmp EXCEPT ![t].content = c \o CopyChunk(s, c),
                                     ![t].mtime = now]
               /\ th' = th
          ELSE /\ tmp' = tmp
               /\ th' = [th EXCEPT ![t].pc = "w_rename"]
    /\ UNCHANGED <<gc, baseDir, tempDir, files, now, useLock, locks, written, idem>>

\* Mutant of WriteCopyFail: the staging file is left behind.
WriteCopyFailLeak(t) ==
    /\ th[t].pc = "w_copy"
    /\ th' = [th EXCEPT ![t].pc = "done", ![t].ret = "errIO"]
    /\ locks' = Unlock(keylock(th[t].key))
    /\ UNCHANGED <<gc, baseDir, tempDir, files, tmp, now, useLock, written, idem>>

\* The reader or the disk fails during io.Copy or tmp.Sync; the deferred
\* os.Remove drops the staging file.
WriteCopyFail(t) ==
    /\ th[t].pc = "w_copy"
    /\ tmp' = [tmp EXCEPT ![t] = NoFile]
    /\ th' = [th EXCEPT ![t].pc = "done", ![t].ret = "errIO"]
    /\ locks' = Unlock(keylock(th[t].key))
    /\ UNCHANGED <<gc, baseDir, tempDir, files, now, useLock, written, idem>>

\* Mutant of RenameReady: the rename does not wait for the copy to end.
RenameEarly(t) == th[t].pc \in {"w_copy", "w_rename"}

\* Whether Write may rename the staging file: the copy is complete.
\* (The code renames only after io.Copy and Sync returned.)
RenameReady(t) == th[t].pc = "w_rename"

\* Write, lines 182-185 and the deferred calls: os.Rename replaces whatever
\* the key names; the staging name is gone either way.
WriteRename(t) ==
    /\ RenameReady(t)
    /\ th[t].op = "Write" /\ th[t].pc \in {"w_copy", "w_rename"}
    /\ LET k == th[t].key
       IN IF tmp[t].exists /\ baseDir
          THEN /\ files' = [files EXCEPT ![k] = tmp[t]]
               /\ written' = [written EXCEPT ![k] = th[t].payload]
               /\ th' = [th EXCEPT ![t].pc = "done", ![t].ret = "nil"]
          ELSE /\ files' = files
               /\ written' = written
               /\ th' = [th EXCEPT ![t].pc = "done", ![t].ret = "errIO"]
    /\ tmp' = [tmp EXCEPT ![t] = NoFile]
    /\ locks' = Unlock(keylock(th[t].key))
    /\ idem' = "no"
    /\ UNCHANGED <<gc, baseDir, tempDir, now, useLock>>

\* ------------------------------------------------------------------ Read
\* Mutant of touch: the modification time is not set.
touchNothing(k, ts) == files

\* touch, lines 222-227: os.Chtimes sets the modification time.
touch(k, ts) == [files EXCEPT ![k].mtime = ts]

\* Read, lines 133-136: hasFile, whose os.Stat result the thread holds in
\* list until the file is opened.
ReadHas(t, k) ==
    /\ th[t].pc = "idle"
    /\ IF hasFile(k)
       THEN th' = [th EXCEPT ![t] = [Idle EXCEPT !.pc = "r_touch", !.op = "Read", !.key = k,
                                     !.list = <<FileInfo(k)>>]]
       ELSE th' = [th EXCEPT ![t] = [Idle EXCEPT !.pc = "done", !.op = "Read", !.key = k,
                                     !.ret = "ErrNotExist"]]
    /\ UNCHANGED <<gc, baseDir, tempDir, files, tmp, now, useLock, locks, written, idem>>

\* Read, lines 138-140: f.touch(key, time.Now()).
ReadTouch(t) ==
    /\ th[t].pc = "r_touch"
    /\ IF hasFile(th[t].key)
       THEN /\ files' = touch(th[t].key, now)
            /\ th' = [th EXCEPT ![t].pc = "r_open"]
       ELSE /\ files' = files
            /\ th' = [th EXCEPT ![t].pc = "done", ![t].ret = "ErrNotExist",
                                 ![t].list = <<>>]
    /\ idem' = "no"
    /\ UNCHANGED <<gc, baseDir, tempDir, tmp, now, useLock, locks, written>>

\* Read, lines 142-146: os.Open; the stream reads the file opened.
ReadOpen(t) ==
    /\ th[t].pc = "r_open"
    /\ IF hasFile(th[t].key)
       THEN th' = [th EXCEPT ![t].pc = "done", ![t].ret = "nil", ![t].list = <<>>,
                             ![t].out = files[th[t].key].content]
       ELSE th' = [th EXCEPT ![t].pc = "done", ![t].ret = "ErrNotExist",
                             ![t].list = <<>>]
    /\ UNCHANGED <<gc, baseDir, tempDir, files, tmp, now, useLock, locks, written, idem>>

\* A caller back-dates an entry with touch (as the tests do); the error of
\* a missing file is dropped.
Touch(t, k, ts) ==
    /\ th[t].pc = "idle"
    /\ hasFile(k)
    /\ files' = touch(k, ts)
    /\ idem' = "no"
    /\ UNCHANGED <<gc, baseDir, tempDir, tmp, now, useLock, locks, th, written>>

\* ----------------------------------------------------------------- Files
\* Mutant of less: the comparison is turned round.
lessReversed(a, b) == Unix(a.mtime) > Unix(b.mtime)

\* The comparison Files hands to sort.Slice, line 247.
less(a, b) == Unix(a.mtime) < Unix(b.mtime)

\* The orders Readdir(-1) may list a set of names in.
RECURSIVE Orders(_)
Orders(S) ==
    IF S = {} THEN {<<>>}
    ELSE UNION {{<<k>> \o l : l \in Orders(S \ {k})} : k \in S}

\* Files, lines 237-249: the direct entries, in an order sort.Slice (not
\* stable) may leave them in: no entry is less than one before it.
Files ==
    {[i \in 1..Len(o) |-> FileInfo(o[i])] :
        o \in {p \in Orders({k \in Keys : files[k].exists}) :
                 \A i, j \in 1..Len(p) :
                    i < j => ~less(FileInfo(p[j]), FileInfo(p[i]))}}

\* A caller lists the cache.
FilesCall(t) ==
    /\ th[t].pc = "idle"
    /\ IF baseDir
       THEN \E l \in Files :
               th' = [th EXCEPT ![t] = [Idle EXCEPT !.pc = "done", !.op = "Files",
                                        !.ret = "nil", !.list = l]]
       ELSE th' = [th EXCEPT ![t] = [Idle EXCEPT !.pc = "done", !.op = "Files",
                                     !.ret = "errIO"]]
    /\ UNCHANGED <<gc, baseDir, tempDir, files, tmp, now, useLock, locks, written, idem>>

\* Size, lines 272-285: the bytes of the regular files under BaseDir.
RECURSIVE SizeOf(_)
SizeOf(S) ==
    IF S = {} THEN 0
    ELSE LET k == CHOOSE x \in S : TRUE
         IN Len(files[k].content) + SizeOf(S \ {k})

Size == SizeOf({k \in Keys : files[k].exists})

\* ---------------------------------------------------------------- Delete
\* cleanCachedFiles returns r: its deferred Unlock runs by the caller.
SweepDone(rec, r) ==
    [Idle EXCEPT !.pc = "done", !.op = "Sweep", !.ret = r, !.second = rec.second]

\* Mutant of AfterDelete: the size pass leaves its loop after one deletion.
AfterDeleteBreak(rec, r) ==
    IF rec.op = "Delete" THEN [rec EXCEPT !.pc = "done", !.ret = r]
    ELSE IF r # "nil" THEN SweepDone(rec, r)
    ELSE IF rec.caller = "ttl"
         THEN [rec EXCEPT !.pc = "ttl_loop", !.list = Tail(rec.list),
                          !.key = "", !.caller = "none"]
    ELSE SweepDone(rec, "nil")

\* Mutant of AfterDelete: a sweep takes every Delete for done and goes on.
AfterDeleteIgnore(rec, r) ==
    IF rec.op = "Delete" THEN [rec EXCEPT !.pc = "done", !.ret = r]
    ELSE IF rec.caller = "ttl"
         THEN [rec EXCEPT !.pc = "ttl_loop", !.list = Tail(rec.list),
                          !.key = "", !.caller = "none"]
    ELSE LET c == rec.cleanedSize + Head(rec.list).size
         IN IF c >= rec.resize
            THEN SweepDone(rec, "nil")
            ELSE [rec EXCEPT !.pc = "lru_loop", !.list = Tail(rec.list),
                             !.cleanedSize = c, !.key = "", !.caller = "none"]

\* Where a thread stands when its Delete returns r: back in the caller, or,
\* inside a sweep, in the loop that called it (lines 261-264, 301-310).
AfterDelete(rec, r) ==
    IF rec.op = "Delete" THEN [rec EXCEPT !.pc = "done", !.ret = r]
    ELSE IF r # "nil" THEN SweepDone(rec, r)
    ELSE IF rec.caller = "ttl"
         THEN [rec EXCEPT !.pc = "ttl_loop", !.list = Tail(rec.list),
                          !.key = "", !.caller = "none"]
    ELSE LET c == rec.cleanedSize + Head(rec.list).size
         IN IF c >= rec.resize
            THEN SweepDone(rec, "nil")
            ELSE [rec EXCEPT !.pc = "lru_loop", !.list = Tail(rec.list),
                             !.cleanedSize = c, !.key = "", !.caller = "none"]

\* The locks left when a thread moves to rec: a finished sweep gives up the
\* global lock.
Released(rec, held) ==
    IF useLock /\ rec.op = "Sweep" /\ rec.pc = "done"
    THEN held \ {defaultLockKey} ELSE held

\* The history of a finished sweep: "yes" when it returned nil and the
\* clock stood still since it started.
IdemAfter(rec) ==
    IF rec.op = "Sweep" /\ rec.pc = "done"
    THEN (IF rec.ret = "nil" /\ idem \in {"run", "yes"} THEN "yes" ELSE "no")
    ELSE idem

\* Delete, lines 189-195, called by a caller (from = "none") or by a sweep
\* on the head of its listing.
CallDelete(t, k, from) ==
    IF useLock /\ ~CanLock(keylock(k))
    THEN LET rec == AfterDelete([th[t] EXCEPT !.key = k, !.caller = from], "errLock")
         IN /\ th' = [th EXCEPT ![t] = rec]
            /\ locks' = Released(rec, locks)
            /\ idem' = IdemAfter(rec)
    ELSE /\ th' = [th EXCEPT ![t].pc = "d_has", ![t].key = k, ![t].caller = from]
         /\ locks' = IF useLock THEN locks \cup {keylock(k)} ELSE locks
         /\ idem' = idem

DeleteLock(t, k) ==
    /\ th[t].pc = "idle"
    /\ th[t].op = "none"
    /\ LET rec == [Idle EXCEPT !.op = "Delete", !.key = k]
       IN IF useLock /\ ~CanLock(keylock(k))
          THEN /\ th' = [th EXCEPT ![t] = AfterDelete(rec, "errLock")]
               /\ locks' = locks
          ELSE /\ th' = [th EXCEPT ![t] = [rec EXCEPT !.pc = "d_has"]]
               /\ locks' = IF useLock THEN locks \cup {keylock(k)} ELSE locks
    /\ UNCHANGED <<gc, baseDir, tempDir, files, tmp, now, useLock, written, idem>>

\* Delete, lines 197-200.
DeleteHas(t) ==
    /\ th[t].pc = "d_has"
    /\ IF hasFile(th[t].key)
       THEN /\ th' = [th EXCEPT ![t].pc = "d_remove"]
            /\ locks' = locks
            /\ idem' = idem
       ELSE LET rec == AfterDelete(th[t], "ErrNotExist")
            IN /\ th' = [th EXCEPT ![t] = rec]
               /\ locks' = Released(rec, Unlock(keylock(th[t].key)))
               /\ idem' = IdemAfter(rec)
    /\ UNCHANGED <<gc, baseDir, tempDir, files, tmp, now, useLock, written>>

\* Mutant of Remove: the file stays.
RemoveNothing(k) == files

\* What os.Remove leaves of the base directory.
Remove(k) == [files EXCEPT ![k] = NoFile]

\* Delete, line 201: os.Remove, then the deferred Unlock.
DeleteRemove(t) ==
    /\ th[t].pc = "d_remove"
    /\ LET k == th[t].key
           r == IF hasFile(k) THEN "nil" ELSE "ErrNotExist"
           rec == AfterDelete(th[t], r)
       IN /\ files' = IF hasFile(k) THEN Remove(k) ELSE files
          /\ written' = IF hasFile(k) THEN [written EXCEPT ![k] = <<>>] ELSE written
          /\ th' = [th EXCEPT ![t] = rec]
          /\ locks' = Released(rec, Unlock(keylock(k)))
          /\ idem' = IdemAfter(rec)
    /\ UNCHANGED <<gc, baseDir, tempDir, tmp, now, useLock>>

\* ----------------------------------------------------------------- Empty
\* Empty, lines 205-211: the global lock.
EmptyLock(t) ==
    /\ th[t].pc = "idle"
    /\ IF useLock /\ ~CanLock(defaultLockKey)
       THEN /\ th' = [th EXCEPT ![t] = [Idle EXCEPT !.pc = "done", !.op = "Empty",
                                        !.ret = "errLock"]]
            /\ locks' = locks
       ELSE /\ th' = [th EXCEPT ![t] = [Idle EXCEPT !.pc = "e_temp", !.op = "Empty"]]
            /\ locks' = IF useLock THEN locks \cup {defaultLockKey} ELSE locks
    /\ UNCHANGED <<gc, baseDir, tempDir, files, tmp, now, useLock, written, idem>>

\* Mutant of EmptyTemp: the staging directory is left alone.
EmptyTempKeep(t) ==
    /\ th[t].pc = "e_temp"
    /\ th' = [th EXCEPT ![t].pc = "e_base"]
    /\ UNCHANGED <<gc, baseDir, tempDir, files, tmp, now, useLock, locks, written, idem>>

\* Empty, lines 213-215: os.RemoveAll(TempDir) unlinks every staging file.
EmptyTemp(t) ==
    /\ th[t].pc = "e_temp"
    /\ tempDir' = FALSE
    /\ tmp' = [u \in Threads |-> [tmp[u] EXCEPT !.exists = FALSE]]
    /\ th' = [th EXCEPT ![t].pc = "e_base"]
    /\ UNCHANGED <<gc, baseDir, files, now, useLock, locks, written, idem>>

\* Empty, lines 216-219: os.RemoveAll(BaseDir), then the deferred Unlock.
EmptyBase(t) ==
    /\ th[t].pc = "e_base"
    /\ baseDir' = FALSE
    /\ files' = [k \in Keys |-> NoFile]
    /\ written' = [k \in Keys |-> <<>>]
    /\ th' = [th EXCEPT ![t].pc = "done", ![t].ret = "nil"]
    /\ locks' = Unlock(defaultLockKey)
    /\ idem' = IF idem \in {"yes", "emptied"} THEN "emptied" ELSE "no"
    /\ UNCHANGED <<gc, tempDir, tmp, now, useLock>>

\* ----------------------------------------------------------------- sweep
\* cleanCachedFiles, lines 320-326: the global lock.
SweepLock(t) ==
    /\ th[t].pc = "idle"
    /\ IF useLock /\ ~CanLock(defaultLockKey)
       THEN /\ th' = [th EXCEPT ![t] = SweepDone(Idle, "errLock")]
            /\ locks' = locks
            /\ idem' = "no"
       ELSE /\ th' = [th EXCEPT ![t] = [Idle EXCEPT !.pc = "ttl_files", !.op = "Sweep",
                                        !.second = IF idem \in {"yes", "emptied"}
                                                   THEN idem ELSE "no"]]
            /\ locks' = IF useLock THEN locks \cup {defaultLockKey} ELSE locks
            /\ idem' = IF idem \in {"yes", "emptied"} THEN idem ELSE "run"
    /\ UNCHANGED <<gc, baseDir, tempDir, files, tmp, now, useLock, written>>

\* Mutant of TtlFiles: a listing that fails ends the sweep with its error.
TtlFilesHard(t) ==
    /\ th[t].pc = "ttl_files"
    /\ IF baseDir
       THEN /\ \E l \in Files : th' = [th EXCEPT ![t].pc = "ttl_loop", ![t].list = l]
            /\ locks' = locks
       ELSE /\ th' = [th EXCEPT ![t] = SweepDone(th[t], "errIO")]
            /\ locks' = Released(SweepDone(th[t], "errIO"), locks)
    /\ UNCHANGED <<gc, baseDir, tempDir, files, tmp, now, useLock, written, idem>>

\* cleanCachedFileByTTL, lines 252-255: a listing that fails ends the pass
\* with no error.
TtlFiles(t) ==
    /\ th[t].pc = "ttl_files"
    /\ IF baseDir
       THEN \E l \in Files : th' = [th EXCEPT ![t].pc = "ttl_loop", ![t].list = l]
       ELSE th' = [th EXCEPT ![t].pc = "lru_size"]
    /\ UNCHANGED <<gc, baseDir, tempDir, files, tmp, now, useLock, locks, written, idem>>

\* Mutant of Expired: an entry as old as MaxTTL is evicted.
ExpiredAtTTL(file) == now - file.mtime >= MaxTTL

\* Line 260: the age test of the TTL pass.
Expired(file) == now - file.mtime > MaxTTL

\* cleanCachedFileByTTL, lines 258-269: one turn of the loop.
TtlLoop(t) ==
    /\ th[t].pc = "ttl_loop"
    /\ IF th[t].list = <<>>
       THEN /\ th' = [th EXCEPT ![t].pc = "lru_size"]
            /\ locks' = locks
            /\ idem' = idem
       ELSE IF Expired(Head(th[t].list))
       THEN CallDelete(t, Head(th[t].list).name, "ttl")
       ELSE /\ th' = [th EXCEPT ![t].list = Tail(th[t].list)]
            /\ locks' = locks
            /\ idem' = idem
    /\ UNCHANGED <<gc, baseDir, tempDir, files, tmp, now, useLock, written>>

\* Mutant of OverBudget: the size pass runs at the budget.
OverBudgetOrEqual(resize) == resize >= 0

\* Line 293: the size pass has something to do.
OverBudget(resize) == resize > 0

\* cleanCachedFileByLRU, lines 288-293: fc.Size() and the excess.
LruSize(t) ==
    /\ th[t].pc = "lru_size"
    /\ LET rec == IF ~baseDir THEN SweepDone(th[t], "errIO")
                  ELSE IF OverBudget(Size - MaxSize)
                  THEN [th[t] EXCEPT !.pc = "lru_files", !.resize = Size - MaxSize]
                  ELSE SweepDone(th[t], "nil")
       IN /\ th' = [th EXCEPT ![t] = rec]
          /\ locks' = Released(rec, locks)
          /\ idem' = IdemAfter(rec)
    /\ UNCHANGED <<gc, baseDir, tempDir, files, tmp, now, useLock, written>>

\* cleanCachedFileByLRU, lines 294-299: the listing, oldest first.
LruFiles(t) ==
    /\ th[t].pc = "lru_files"
    /\ IF baseDir
       THEN /\ \E l \in Files :
                  th' = [th EXCEPT ![t].pc = "lru_loop", ![t].list = l,
                                   ![t].cleanedSize = 0]
            /\ locks' = locks
            /\ idem' = idem
       ELSE LET rec == SweepDone(th[t], "nil")
            IN /\ th' = [th EXCEPT ![t] = rec]
               /\ locks' = Released(rec, locks)
               /\ idem' = IdemAfter(rec)
    /\ UNCHANGED <<gc, baseDir, tempDir, files, tmp, now, useLock, written>>

\* cleanCachedFileByLRU, lines 300-311: one turn of the loop.
LruLoop(t) ==
    /\ th[t].pc = "lru_loop"
    /\ IF th[t].list = <<>>
       THEN LET rec == SweepDone(th[t], "nil")
            IN /\ th' = [th EXCEPT ![t] = rec]
               /\ locks' = Released(rec, locks)
               /\ idem' = IdemAfter(rec)
       ELSE CallDelete(t, Head(th[t].list).name, "lru")
    /\ UNCHANGED <<gc, baseDir, tempDir, files, tmp, now, useLock, written>>

\* ------------------------------------------------------- specifications
\* The steps of a call in progress.
Continue(t) ==
    \/ WriteHas(t) \/ WriteCreateTemp(t) \/ WriteCopy(t) \/ WriteCopyFail(t)
    \/ WriteRename(t)
    \/ ReadTouch(t) \/ ReadOpen(t)
    \/ DeleteHas(t) \/ DeleteRemove(t)
    \/ EmptyTemp(t) \/ EmptyBase(t)
    \/ TtlFiles(t) \/ TtlLoop(t) \/ LruSize(t) \/ LruFiles(t) \/ LruLoop(t)
    \/ Return(t)

\* The calls a caller may make.
Call(t) ==
    \/ \E k \in Keys, s \in Payloads : WriteLock(t, k, s)
    \/ \E k \in Keys : ReadHas(t, k)
    \/ \E k \in Keys : DeleteLock(t, k)
    \/ \E k \in Keys, ts \in 0..now : Touch(t, k, ts)
    \/ FilesCall(t)
    \/ EmptyLock(t)
    \/ SweepLock(t)

\* One caller: every call runs alone.
NextSeq == Tick \/ Call("c1") \/ Continue("c1")

SpecSeq == Init /\ [][NextSeq]_vars

\* The calls of a second caller, who works on one key.
KeyCall(t) ==
    \/ \E s \in Payloads : WriteLock(t, "a", s)
    \/ DeleteLock(t, "a")

\* The calls of the first caller beside a second one, on two keys.
StoreCall(t) ==
    \/ \E k \in {"a", "b"}, s \in Payloads : WriteLock(t, k, s)
    \/ \E k \in {"a", "b"} : ReadHas(t, k)
    \/ \E k \in {"a", "b"} : DeleteLock(t, k)
    \/ EmptyLock(t)
    \/ SweepLock(t)

\* Two callers at once.
Next == Tick \/ StoreCall("c1") \/ KeyCall("c2") \/ \E t \in Threads : Continue(t)

Spec == Init /\ [][Next]_vars

\* The calls of two callers who both sweep and empty the cache.
LockCall(t) ==
    \/ \E k \in {"a", "b"} : WriteLock(t, k, <<2, 3>>)
    \/ ReadHas(t, "a")
    \/ DeleteLock(t, "a")
    \/ EmptyLock(t)
    \/ SweepLock(t)

NextLock == Tick \/ \E t \in Threads : LockCall(t) \/ Continue(t)

SpecLock == Init /\ [][NextLock]_vars

\* ------------------------------------------------------------- scheduler
\* RunGC, lines 339-341: the goroutine starts and makes its ticker.
RunGC(t) ==
    /\ th[t].pc = "idle"
    /\ gc.pc = "none"
    /\ gc' = [gc EXCEPT !.pc = "wait"]
    /\ UNCHANGED <<baseDir, tempDir, files, tmp, now, useLock, locks, th, written, idem>>

\* StopGC, line 358: close(fc.quit).  Closing a closed channel panics, and
\* the panic ends the process with all its goroutines.
StopGC(t) ==
    /\ th[t].pc = "idle"
    /\ IF gc.quit = "closed"
       THEN /\ gc' = [gc EXCEPT !.panic = TRUE, !.pc = "dead"]
            /\ th' = [u \in Threads |-> [Idle EXCEPT !.pc = "dead"]]
       ELSE /\ gc' = [gc EXCEPT !.quit = "closed"]
            /\ th' = th
    /\ UNCHANGED <<baseDir, tempDir, files, tmp, now, useLock, locks, written, idem>>

\* The runtime timer sends on ticker.C, a channel of capacity one; a tick
\* that finds the buffer full is dropped.
TickerFire ==
    /\ gc.pc \in {"wait", "select", "pass"}
    /\ gc.tick = 0
    /\ gc' = [gc EXCEPT !.tick = 1]
    /\ UNCHANGED <<baseDir, tempDir, files, tmp, now, useLock, locks, th, written, idem>>

\* Line 344: <-ticker.C.
GcWait ==
    /\ gc.pc = "wait"
    /\ gc.tick = 1
    /\ gc' = [gc EXCEPT !.pc = "select", !.tick = 0,
                         !.waited = IF gc.quit = "closed" THEN @ + 1 ELSE 0]
    /\ UNCHANGED <<baseDir, tempDir, files, tmp, now, useLock, locks, th, written, idem>>

\* Lines 345-346: the select takes the case of ticker.C.  When both cases
\* are ready the runtime picks either.
GcSelectTick ==
    /\ gc.pc = "select"
    /\ gc.tick = 1
    /\ gc' = [gc EXCEPT !.pc = "pass", !.tick = 0,
                         !.waited = IF gc.quit = "closed" THEN @ + 1 ELSE 0]
    /\ UNCHANGED <<baseDir, tempDir, files, tmp, now, useLock, locks, th, written, idem>>

\* Lines 349-350: the select takes the case of fc.quit, ready once closed.
GcSelectQuit ==
    /\ gc.pc = "select"
    /\ gc.quit = "closed"
    /\ gc' = [gc EXCEPT !.pc = "exit"]
    /\ UNCHANGED <<baseDir, tempDir, files, tmp, now, useLock, locks, th, written, idem>>

\* Line 347: the goroutine calls fc.cleanCachedFiles.
GcCall ==
    /\ gc.pc = "pass"
    /\ SweepLock("c1")

\* Mutant of AfterPass: an error of the pass ends the goroutine.
AfterPassReturn(r) == IF r = "nil" THEN "wait" ELSE "exit"

\* Where the goroutine goes when the pass returned r: round the loop.
AfterPass(r) == "wait"

\* Lines 347-349: the pass returns, its error is logged.
GcPassEnd ==
    /\ gc.pc = "pass"
    /\ th["c1"].pc = "done"
    /\ gc' = [gc EXCEPT !.pc = AfterPass(th["c1"].ret), !.last = th["c1"].ret,
                         !.waited = 0]
    /\ th' = [th EXCEPT !["c1"] = Idle]
    /\ UNCHANGED <<baseDir, tempDir, files, tmp, now, useLock, locks, written, idem>>

\* The steps of the pass the goroutine runs.
GcPass(t) ==
    \/ TtlFiles(t) \/ TtlLoop(t) \/ LruSize(t) \/ LruFiles(t) \/ LruLoop(t)
    \/ DeleteHas(t) \/ DeleteRemove(t)

\* The calls of the program beside the goroutine.
MainCall(t) ==
    \/ RunGC(t)
    \/ StopGC(t)
    \/ \E k \in {"a", "b"} : WriteLock(t, k, <<2, 3>>)
    \/ EmptyLock(t)

\* The steps of a call of the program in progress.
MainContinue(t) ==
    \/ WriteHas(t) \/ WriteCreateTemp(t) \/ WriteCopy(t) \/ WriteCopyFail(t)
    \/ WriteRename(t)
    \/ EmptyTemp(t) \/ EmptyBase(t)
    \/ Return(t)

\* The goroutine of RunGC: its loop and the pass it runs as thread c1.
GcNext == GcWait \/ GcSelectTick \/ GcSelectQuit \/ GcCall \/ GcPass("c1") \/ GcPassEnd

NextGC == Tick \/ TickerFire \/ GcNext \/ MainCall("c2") \/ MainContinue("c2")

SpecGC == Init /\ [][NextGC]_vars

\* The timer keeps firing and the runtime keeps running the goroutine.
SpecGCFair == SpecGC /\ WF_vars(TickerFire) /\ WF_vars(GcNext)

\* ---------------------------------------------------------------- claims
\* C1: every entry visible under the base directory holds the complete
\* payload of the Write whose rename made it visible; a partially copied
\* staging file is never an entry.
C1_CommittedEntries ==
    \A k \in Keys :
        files[k].exists => written[k] \in Payloads /\ files[k].content = written[k]

\* C1, its case: an entry is visible while another Write has copied part of
\* its payload into its staging file.
C1_Witness ==
    \E k \in Keys, t \in Threads :
        /\ files[k].exists
        /\ tmp[t].exists
        /\ Len(tmp[t].content) > 0
        /\ Len(tmp[t].content) < Len(th[t].payload)

\* C2: a step of Write on a key that names an entry changes no entry and no
\* staging file, and Write returns errKeyExisted from its existence check.
C2_CreateOnly ==
    [][\A t \in Threads :
          (th'[t].op = "Write" /\ th'[t] # th[t] /\ hasFile(th'[t].key))
          => /\ files' = files
             /\ tmp' = tmp
             /\ tmp[t] = NoFile
             /\ th'[t].pc \in {"w_has", "done"}
             /\ (th'[t].pc = "done" => th'[t].ret = "errKeyExisted")]_vars

\* C2, its case: Write returned errKeyExisted on an entry made from another
\* payload.
C2_Witness ==
    \E t \in Threads :
        /\ th[t].pc = "done" /\ th[t].op = "Write"
        /\ th[t].ret = "errKeyExisted"
        /\ hasFile(th[t].key)
        /\ written[th[t].key] # th[t].payload

\* A step that leaves the content of every entry it keeps, and in which no
\* Write returns success on a key that names an entry.
NoOverwrite ==
    \A k \in Keys :
        hasFile(k)
        => /\ (files'[k].exists => files'[k].content = files[k].content)
           /\ \A t \in Threads :
                 (th[t].op = "Write" /\ th[t].key = k
                     /\ th[t].pc # "done" /\ th'[t].pc = "done")
                 => th'[t].ret # "nil"

\* C3 as claimed: with or without a lock factory, no Write replaces an
\* entry or returns success on an occupied key.
C3_NeverOverwritten == [][NoOverwrite]_vars

\* C3 as amended: with a lock factory, no Write replaces an entry or returns
\* success on an occupied key.
C3_NeverOverwrittenLocked == [][useLock => NoOverwrite]_vars

\* C3, its case: with a lock factory, one Write of a key is under way and a
\* second Write of the same key was refused the lock.
C3_Witness ==
    \E t, u \in Threads :
        /\ useLock
        /\ th[t].op = "Write" /\ th[t].pc \in {"w_create", "w_copy", "w_rename"}
        /\ th[u].op = "Write" /\ th[u].pc = "done" /\ th[u].ret = "errLock"
        /\ th[u].key = th[t].key

\* C4: a Read that returns a stream returns the payload of the Write that
\* made the entry.
C4_RoundTrip ==
    [][\A t \in Threads :
          (th[t].pc = "r_open" /\ th'[t].pc = "done" /\ th'[t].ret = "nil")
          => /\ written[th[t].key] \in Payloads
             /\ th'[t].out = written[th[t].key]]_vars

\* C4, its case: a Read returned the two-byte payload written before it.
C4_Witness ==
    \E t \in Threads :
        /\ th[t].pc = "done" /\ th[t].op = "Read" /\ th[t].ret = "nil"
        /\ th[t].out = <<2, 3>>
        /\ written[th[t].key] = <<2, 3>>

\* A step of the TTL pass of thread t, its calls of Delete included.
TtlStep(t) ==
    /\ th[t].op = "Sweep" /\ th'[t] # th[t]
    /\ th[t].pc \in {"ttl_files", "ttl_loop"} \/ th[t].caller = "ttl"

\* C5: the TTL pass deletes an entry only when now - lastAccess > MaxTTL,
\* deletes every listed entry it finds that old, leaves every other entry as
\* it is, and, when the clock stood still, ends with no entry that old.
C5_TtlPass ==
    [][\A t \in Threads :
          TtlStep(t)
          => /\ \A k \in Keys :
                   \/ files'[k] = files[k]
                   \/ /\ k = th[t].key
                      /\ files[k].exists /\ ~files'[k].exists
                      /\ now - files[k].mtime > MaxTTL
             /\ (th[t].pc = "ttl_loop" /\ th[t].list # <<>>)
                => LET f == Head(th[t].list)
                   IN IF now - files[f.name].mtime > MaxTTL
                      THEN th'[t].pc = "d_has" /\ th'[t].key = f.name
                      ELSE th'[t].pc = "ttl_loop" /\ th'[t].list = Tail(th[t].list)
             /\ th[t].pc = "d_has" => th'[t].pc = "d_remove"
             /\ th[t].pc = "d_remove"
                => ~files'[th[t].key].exists /\ th'[t].pc = "ttl_loop"
             /\ (th[t].pc = "ttl_loop" /\ th'[t].pc = "lru_size" /\ idem # "no")
                => \A k \in Keys : files[k].exists => now - files[k].mtime <= MaxTTL]_vars

\* C5, its case: the TTL pass removes an entry while another entry, exactly
\* MaxTTL old, stays.
C5_Witness ==
    \E t \in Threads, k \in Keys :
        /\ th[t].op = "Sweep" /\ th[t].pc = "d_remove" /\ th[t].caller = "ttl"
        /\ k # th[t].key
        /\ files[k].exists /\ now - files[k].mtime = MaxTTL

\* A step of the size pass of thread t, its calls of Delete included.
LruStep(t) ==
    /\ th[t].op = "Sweep" /\ th'[t] # th[t]
    /\ th[t].pc \in {"lru_size", "lru_files", "lru_loop"} \/ th[t].caller = "lru"

\* The size pass, with last-access times compared as Stamp gives them: it
\* deletes nothing within the budget; it deletes the head of its listing
\* while the total is over the budget and no longer; no entry it deletes is
\* younger than one that stays; it returns nil, within the budget, unless
\* the base directory is gone.
SizePass(Stamp(_)) ==
    \A t \in Threads :
        LruStep(t)
        => /\ \A k \in Keys :
                 \/ files'[k] = files[k]
                 \/ /\ k = th[t].key /\ k = Head(th[t].list).name
                    /\ files[k].exists /\ ~files'[k].exists
                    /\ Size > MaxSize
                    /\ \A k2 \in Keys \ {k} :
                          files[k2].exists
                          => Stamp(files[k].mtime) <= Stamp(files[k2].mtime)
           /\ (th[t].pc = "lru_size" /\ Size <= MaxSize)
              => th'[t].pc = "done" /\ files' = files
           /\ (th[t].pc = "lru_size" /\ Size > MaxSize) => th'[t].pc = "lru_files"
           /\ (th[t].pc = "lru_loop" /\ th[t].list # <<>>) => th'[t].pc = "d_has"
           /\ th[t].pc = "d_has" => th'[t].pc = "d_remove"
           /\ th[t].pc = "d_remove" => ~files'[th[t].key].exists
           /\ th'[t].pc \in {"lru_loop", "d_has"} => Size > MaxSize
           /\ (th'[t].pc = "done" /\ baseDir) => th'[t].ret = "nil"
           /\ (th'[t].pc = "done" /\ th'[t].ret = "nil") => Size' <= MaxSize

SameStamp(m) == m

Listed(l) ==
    /\ Len(l) = Cardinality({k \in Keys : files[k].exists})
    /\ {l[i] : i \in 1..Len(l)} = {FileInfo(k) : k \in {x \in Keys : files[x].exists}}

C8_ReadBumps ==
    [][\A t \in Threads :
          (th[t].op = "Read" /\ th'[t] # th[t])
          => LET k == th[t].key
             IN /\ \A k2 \in Keys \ {k} : files'[k2] = files[k2]
                /\ files'[k].exists = files[k].exists
                /\ files'[k].content = files[k].content
                /\ th[t].pc = "r_touch"
                   => /\ th'[t].pc = "r_open"
                      /\ files'[k].mtime = now
                      /\ now > th[t].list[1].mtime
                         => files'[k].mtime > th[t].list[1].mtime
                /\ th[t].pc # "r_touch" => files' = files
                /\ (th'[t].pc = "done" /\ th'[t].ret = "nil") => th[t].pc = "r_open"]_vars

\* C8, its case: a Read has touched its key, after the clock advanced, and
\* is about to open it.
C8_Witness ==
    \E t \in Threads :
        /\ th[t].op = "Read" /\ th[t].pc = "r_open"
        /\ th[t].list[1].mtime < files[th[t].key].mtime
        /\ files[th[t].key].mtime = now

\* A step of a sweep that started after a sweep returned nil in no time,
\* with nothing since but the events in kinds.
SecondRun(t, kinds) ==
    /\ th[t].op = "Sweep" /\ th'[t] # th[t]
    /\ th[t].second \in kinds /\ idem \in kinds

C10_Delete ==
    [][\A t \in Threads :
          /\ (th[t].op = "Delete" /\ th[t].pc # "done" /\ th'[t] # th[t])
             => LET k == th[t].key
                IN IF hasFile(k)
                   THEN /\ th[t].pc = "d_has"
                           => th'[t].pc = "d_remove" /\ files' = files
                        /\ th[t].pc = "d_remove"
                           => /\ ~Has(k)'
                              /\ th'[t].pc = "done" /\ th'[t].ret = "nil"
                              /\ \A k2 \in Keys \ {k} : files'[k2] = files[k2]
                   ELSE /\ th'[t].pc = "done" /\ th'[t].ret = "ErrNotExist"
                        /\ files' = files
          /\ (th[t].pc = "idle" /\ th'[t].op \in {"Read", "Delete"})
             => /\ files' = files
                /\ (th'[t].op = "Read" /\ ~hasFile(th'[t].key))
                   => th'[t].pc = "done" /\ th'[t].ret = "ErrNotExist"
          /\ \A k \in Keys :
                (~Has(k) /\ Has(k)')
                => \E u \in Threads :
                      /\ th[u].op = "Write" /\ th[u].key = k
                      /\ th'[u].pc = "done" /\ th'[u].ret = "nil"]_vars

\* C10, its case: Delete has removed the entry of its key.
C10_Witness ==
    \E t \in Threads :
        /\ th[t].op = "Delete" /\ th[t].pc = "done" /\ th[t].ret = "nil"
        /\ baseDir /\ ~Has(th[t].key)
        /\ written[th[t].key] = <<>>

\* C11: once Empty has returned nil, the staging and the base directory are
\* absent and stay absent, no key names an entry again, every Read that
\* ends afterwards returns ErrNotExist, and a Write in progress during the
\* Empty or begun after it ends with an error.
Cleared == ~baseDir /\ ~tempDir /\ \A k \in Keys : ~Has(k) /\ ~files[k].exists

ClearedStep ==
    Cleared =>
        /\ Cleared'
        /\ \A t \in Threads :
              (th[t].pc # "done" /\ th'[t].pc = "done") =>
                  /\ th'[t].op = "Write" => th'[t].ret \in {"errIO", "errLock"}
                  /\ th'[t].op = "Read" => th'[t].ret = "ErrNotExist"

C11_Clear ==
    /\ [](\A t \in Threads :
             (th[t].op = "Empty" /\ th[t].pc = "done" /\ th[t].ret = "nil") => Cleared)
    /\ [][ClearedStep]_vars

\* An Empty has returned nil while a Write of the other caller, past its
\* copy, has yet to rename a staging file that is gone.
C11_Witness ==
    /\ th["c1"].op = "Empty" /\ th["c1"].pc = "done" /\ th["c1"].ret = "nil"
    /\ th["c2"].op = "Write" /\ th["c2"].pc = "w_rename"
    /\ Len(tmp["c2"].content) = 2 /\ ~tmp["c2"].exists

\* C12: every lock Write, Delete, Empty or cleanCachedFiles has taken is
\* released when the operation ends, on every path, and a refused lock
\* releases nothing: the factory holds exactly the locks of the operations
\* in their guarded sections, and none when no operation is in progress.
Held(t) ==
    LET r == th[t]
    IN (IF r.pc \in {"w_has", "w_create", "w_copy", "w_rename", "d_has", "d_remove"}
        THEN {keylock(r.key)} ELSE {})
       \cup
       (IF r.pc \in {"e_temp", "e_base"} \/ (r.op = "Sweep" /\ r.pc # "done")
        THEN {defaultLockKey} ELSE {})

C12_LockPairing ==
    /\ locks = IF useLock THEN UNION {Held(t) : t \in Threads} ELSE {}
    /\ (\A t \in Threads : th[t].pc \in {"idle", "done"}) => locks = {}

\* A sweep was aborted by the refused lock of its Delete: the global lock
\* is back, the other caller's lock is still held.
C12_Witness ==
    /\ useLock
    /\ th["c1"].op = "Sweep" /\ th["c1"].pc = "done" /\ th["c1"].ret = "errLock"
    /\ th["c2"].op = "Write" /\ th["c2"].pc = "w_create"
    /\ locks = {keylock("a")}

\* C13: with a lock factory, no two callers are at once inside the section
\* the global key guards (a sweep, an Empty), no two are at once inside the
\* section the lock of one key guards (Write, Delete); the global key is
\* the lock key of no cache key, and a Write or Delete is refused only when
\* the lock of its own key is held, whoever holds the global key.
KeyRefused(t) ==
    /\ th[t].pc = "idle"
    /\ th'[t].op \in {"Write", "Delete"}
    /\ th'[t].pc = "done" /\ th'[t].ret = "errLock"

C13_MutualExclusion ==
    /\ [](useLock =>
            /\ \A t, u \in Threads : t # u => Held(t) \cap Held(u) = {}
            /\ \A k \in Keys : keylock(k) # defaultLockKey)
    /\ [][\A t \in Threads : KeyRefused(t) => keylock(th'[t].key) \in locks]_vars

\* One caller is in the loop of the size pass, under the global key, the
\* other past the copy of a Write, under the lock of its key.
C13_Witness ==
    /\ useLock
    /\ th["c1"].op = "Sweep" /\ th["c1"].pc = "lru_loop" /\ th["c1"].list # <<>>
    /\ th["c2"].op = "Write" /\ th["c2"].pc = "w_rename"
    /\ locks = {defaultLockKey, keylock(th["c2"].key)}

\* C14: StopGC called a second time, or before RunGC, is a no-op: it does
\* not panic and the goroutine is where it was.
C14_StopGCRepeat ==
    [][((gc'.quit # gc.quit \/ gc'.panic # gc.panic)
           /\ (gc.quit = "closed" \/ gc.pc = "none"))
        => (~gc'.panic /\ gc'.pc = gc.pc)]_vars

\* C15: once StopGC has returned the goroutine begins no pass.
C15_NoPassAfterStop ==
    [][(gc.quit = "closed" /\ gc.pc # "pass") => gc'.pc # "pass"]_vars

\* C16: after StopGC the goroutine, between passes, receives at most one
\* tick before it ends.
C16_PromptCancel == gc.waited <= 1

\* C17: a pass that returned an error leaves the goroutine in its loop, and
\* while fc.quit is open the goroutine comes to call another pass.
FailedPass == gc.pc \in {"wait", "select"} /\ gc.last \notin {"none", "nil"}

C17_Survives ==
    /\ [][(gc.pc = "pass" /\ gc'.pc # "pass") => (gc'.pc = "wait" \/ gc'.panic)]_vars
    /\ (FailedPass ~> (gc.pc = "pass" \/ gc.quit = "closed"))

\* The goroutine is about to call a pass after one that returned an error.
C17_Witness ==
    /\ gc.last \in {"errLock", "errIO", "ErrNotExist"}
    /\ gc.pc = "pass" /\ th["c1"].pc = "idle"
    /\ gc.quit = "open"

\* C18: while fc.quit is open, every tick the goroutine receives starts a
\* pass.
C18_TickPass ==
    [][(gc.quit = "open" /\ gc.tick = 1 /\ gc'.tick = 0) => gc'.pc = "pass"]_vars

\* C19: when the base directory cannot be listed the sweep deletes nothing
\* and returns nil.
Moved(t) == th'[t] # th[t]

DeleteFails(t) ==
    /\ th[t].op = "Sweep"
    /\ \/ th[t].pc \in {"d_has", "d_remove"} /\ ~hasFile(th[t].key)
       \/ /\ \/ th[t].pc = "ttl_loop" /\ th[t].list # <<>> /\ Expired(Head(th[t].list))
             \/ th[t].pc = "lru_loop" /\ th[t].list # <<>>
          /\ useLock /\ ~CanLock(keylock(Head(th[t].list).name))

C20_AbortOnDelete ==
    [][\A t \in Threads : (DeleteFails(t) /\ Moved(t)) =>
          /\ th'[t].op = "Sweep" /\ th'[t].pc = "done"
          /\ th'[t].ret = IF th[t].pc \in {"d_has", "d_remove"}
                          THEN "ErrNotExist" ELSE "errLock"
          /\ files' = files
          /\ defaultLockKey \notin locks']_vars

\* A sweep has ended on the Delete of an entry the other caller had
\* removed, and an entry older than MaxTTL is still there.
C20_Witness ==
    /\ th["c1"].op = "Sweep" /\ th["c1"].pc = "done" /\ th["c1"].ret = "ErrNotExist"
    /\ ~hasFile("a")
    /\ hasFile("b") /\ Expired(FileInfo("b"))

\* C21: when a Write has returned, with nil or with any error, the staging
\* file it made is gone; a staging file exists only between os.CreateTemp
\* and the return of the Write, and a Write that returns errKeyExisted or a
\* refused lock has made none.
Rejected(t) ==
    /\ th[t].pc # "done" /\ th'[t].pc = "done"
    /\ th'[t].op = "Write" /\ th'[t].ret \in {"errKeyExisted", "errLock"}

C21_StagingCleanup ==
    /\ [](\A t \in Threads :
             /\ th[t].pc \in {"idle", "done"} => ~tmp[t].exists
             /\ tmp[t].exists => (th[t].op = "Write" /\ th[t].pc \in {"w_copy", "w_rename"}))
    /\ [][\A t \in Threads :
             Rejected(t) => (th[t].pc \in {"idle", "w_has"} /\ tmp[t] = NoFile /\ tmp' = tmp)]_vars

\* A Write has returned the error of its copy, the directories standing,
\* and its staging file is gone.
C21_Witness ==
    /\ th["c2"].op = "Write" /\ th["c2"].pc = "done" /\ th["c2"].ret = "errIO"
    /\ baseDir /\ tempDir
    /\ ~tmp["c2"].exists

\* C22: the TTL pass deletes no entry that, at the moment of the deletion,
\* was accessed MaxTTL ago or less, whatever Read, Write and Delete calls
\* run beside the sweep.
TtlRemoves(t) ==
    /\ Moved(t)
    /\ th[t].op = "Sweep" /\ th[t].caller = "ttl" /\ th[t].pc = "d_remove"
    /\ hasFile(th[t].key) /\ ~files'[th[t].key].exists

C22_FreshNotEvicted ==
    [][\A t \in Threads : TtlRemoves(t) => Expired(FileInfo(th[t].key))]_vars

====
